---- MODULE Spec2Model ----
(***************************************************************************)
(* A model of the WellDoc ingestion-to-index pipeline:                     *)
(*   chunking.py          regroup_sentences, process_all_files_from_directory *)
(*   vector_embedding.py  get_chunks_from_db, store_embeddings, main       *)
(*   llm.py               hybrid_search                                    *)
(*                                                                         *)
(* A string is modelled by its whitespace tokenisation: a sequence of      *)
(* words.  str.split() of a sentence is the sentence's word sequence and   *)
(* " ".join(list) is the concatenation of the word sequences, so that the  *)
(* word count of a joined chunk is the length of the joined sequence.      *)
(***************************************************************************)
EXTENDS Integers, Sequences, FiniteSets, TLC

\* ------------------------------------------------------------------ bounds
\* Number of sentences of one text block given to regroup_sentences.
MaxSentences == 4
\* Number of words of one sentence.
MaxWords == 3
\* Largest max_tokens argument tried (the smallest is 1).
MaxM == 3
\* Largest overlap argument tried (the smallest is 0).
MaxV == 2
\* regroup_sentences is cut off once it has emitted this many chunks: a run
\* that terminates emits at most one chunk per sentence, so the cut only
\* stops the runs that loop forever.
MaxChunks == 6
\* CHUNK_MAX_TOKENS and CHUNK_OVERLAP of the environment (chunking.py:23-24;
\* the defaults are 500 and 50), scaled down to the size of the model's files.
MAX_TOKENS == 3
OVERLAP == 1
\* EMBEDDING_BATCH_SIZE (vector_embedding.py:23; 16 in the source), scaled down
\* so that a run of a few chunks has several batches.
EMBEDDING_BATCH_SIZE == 2
\* Number of ingestion runs and of upsert runs in one behaviour.
MaxIngestRuns == 2
MaxUpsertRuns == 2
\* Number of rows of a table the upsert program is started on.
MaxSeededRows == 3
\* Largest top_k argument of hybrid_search tried (llm.py:52; the default is 3).
MaxTopK == 3

VARIABLES
  \* ---- regroup_sentences (chunking.py:127-150)
  sentences,      \* the argument: a sequence of sentences (word sequences)
  max_tokens,     \* the argument max_tokens
  overlap,        \* the argument overlap
  chunks,         \* the local list chunks
  current_chunk,  \* the local list current_chunk
  word_count,     \* the local word_count
  i,              \* the loop index i
  rpc,            \* "off" | "loop" (line 130) | "done" (returned)
  \* ---- the two stores
  store,          \* table pdf_chunks: the rows in id order (id = position)
  index,          \* the RAG collection: a set of objects [uuid, properties, vector]
  \* ---- process_all_files_from_directory (chunking.py:153-224)
  ipc,            \* "idle" | "map" (inside `with ThreadPoolExecutor()`)
  dir,            \* the directory of the run: file name -> bytes (or Absent)
  existing_hashes,\* the local existing_hashes
  results,        \* file name -> the state of its process_file future
  nxt,            \* position in files of the next result the main thread takes
  new_chunks,     \* the local new_chunks
  hist,           \* one record per finished ingestion run (observation only)
  \* ---- main / store_embeddings (vector_embedding.py:110-160)
  upc,            \* "idle" | "chunk" (line 116) | "flush" (line 141) |
                  \* "blocked" (inside a call that does not return)
  uchunks,        \* the list chunks returned by get_chunks_from_db
  upos,           \* position in uchunks of the chunk handled next
  successful_ids, \* the local successful_ids of the current batch
  uruns,          \* number of upsert runs started
  ulast,          \* how the last upsert run ended: "none" | "completed" | "aborted"
  resumed,        \* whether the run before the last one started was aborted (observation only)
  outcome,        \* per handled chunk of the run (observation only): "ok",
                  \* "failed" (a service did not answer), "refused" (the
                  \* index answered that the id exists), "skipped"
  confirmed,      \* ids whose index write returned without an error (observation only)
  last_write,     \* the last collection.data.insert call and its reply (observation only)
  last_flag_call, \* the last update_vectorized_flag call (observation only)
  \* ---- hybrid_search (llm.py:52-88)
  search,         \* the last call: its argument top_k, what the two services
                  \* did, and how it ended
  \* ---- the embedding requests of the two programs
  environ,        \* os.environ, the same for both programs: name -> value (or Unset)
  embedding_requests \* the endpoint and model of the request get_embedding
                  \* sends (document) and of the one hybrid_search sends (query)

rvars == <<sentences, max_tokens, overlap, chunks, current_chunk, word_count, i, rpc>>
dbvars == <<store, index>>
ivars == <<ipc, dir, existing_hashes, results, nxt, new_chunks, hist>>
uvars == <<upc, uchunks, upos, successful_ids, uruns, ulast, resumed, outcome, confirmed,
           last_write, last_flag_call>>
svars == <<search, environ, embedding_requests>>

\* ------------------------------------------------------------ sequences
RECURSIVE Flatten(_)
\* " ".join(list of sentences), tokenised: the words of the sentences in order.
Flatten(ss) == IF ss = <<>> THEN <<>> ELSE Head(ss) \o Flatten(Tail(ss))

RECURSIVE SumLen(_)
\* sum(len(s.split()) for s in ss)
SumLen(ss) == IF ss = <<>> THEN 0 ELSE Len(Head(ss)) + SumLen(Tail(ss))

\* The sentence at position k of a block, n words long.  The code never
\* compares sentences, so every word is tagged with its place <<k, j>>.
Sentence(k, n) == [j \in 1..n |-> <<k, j>>]

\* The sentence lists of a block: one word count per position.
SentenceLists(maxLen, maxWords) ==
  UNION { { [k \in 1..n |-> Sentence(k, f[k])] : f \in [1..n -> 1..maxWords] }
          : n \in 0..maxLen }

\* ------------------------------------------------- regroup_sentences
\* Mutant of Fits: the test forgets the sentence that is about to be added.
FitsWithoutSentence(wc, words, M) == wc <= M

\* Mutant of Fits: `<` instead of `<=`.
FitsStrict(wc, words, M) == wc + Len(words) < M

\* chunking.py:132 - the greedy test.
Fits(wc, words, M) == wc + Len(words) <= M

RECURSIVE OverlapWalk(_, _, _, _, _)
\* chunking.py:142-145 - the backward walk `while j >= 0 and overlap_words < overlap`
\* (j is 1-based here: j >= 1).
OverlapWalk(cur, j, overlap_words, overlap_chunk, V) ==
  IF j >= 1 /\ overlap_words < V
  THEN OverlapWalk(cur, j - 1, overlap_words + Len(cur[j]), <<cur[j]>> \o overlap_chunk, V)
  ELSE overlap_chunk

\* Mutant of OverlapChunk: the walk goes on while overlap_words <= overlap.
OverlapChunkOneMore(cur, V) == OverlapWalk(cur, Len(cur), 0, <<>>, V + 1)

\* chunking.py:139-146 - the seed of the next chunk.
OverlapChunk(cur, V) == OverlapWalk(cur, Len(cur), 0, <<>>, V)

\* chunking.py:131-147 - one iteration of `while i < len(sentences)` on the
\* locals st = [chunks, current_chunk, word_count, i] (i is 1-based here).
RegroupStep(st, ss, M, V) ==
  IF Fits(st.word_count, ss[st.i], M)
  THEN [chunks        |-> st.chunks,
        current_chunk |-> Append(st.current_chunk, ss[st.i]),
        word_count    |-> st.word_count + Len(ss[st.i]),
        i             |-> st.i + 1]
  ELSE LET seed == OverlapChunk(st.current_chunk, V)
       IN [chunks        |-> Append(st.chunks, Flatten(st.current_chunk)),
           current_chunk |-> seed,
           word_count    |-> SumLen(seed),
           i             |-> st.i]

\* Mutant of RegroupReturn: the final partial chunk is not emitted.
RegroupReturnWithoutRest(st) == st.chunks

\* chunking.py:148-150 - the final partial chunk and the return value.
RegroupReturn(st) ==
  IF st.current_chunk # <<>>
  THEN Append(st.chunks, Flatten(st.current_chunk))
  ELSE st.chunks

\* chunking.py:128-129
RegroupInit == [chunks |-> <<>>, current_chunk |-> <<>>, word_count |-> 0, i |-> 1]

\* The call regroup_sentences(sentences, max_tokens, overlap).
Call ==
  /\ rpc = "off"
  /\ \E ss \in SentenceLists(MaxSentences, MaxWords), M \in 1..MaxM, V \in 0..MaxV :
       /\ sentences' = ss
       /\ max_tokens' = M
       /\ overlap' = V
  /\ chunks' = RegroupInit.chunks
  /\ current_chunk' = RegroupInit.current_chunk
  /\ word_count' = RegroupInit.word_count
  /\ i' = RegroupInit.i
  /\ rpc' = "loop"
  /\ UNCHANGED <<dbvars, ivars, uvars, svars>>

\* One iteration of the while loop (line 130 true).
LoopStep ==
  /\ rpc = "loop"
  /\ i <= Len(sentences)
  /\ Len(chunks) < MaxChunks
  /\ LET st == RegroupStep([chunks |-> chunks, current_chunk |-> current_chunk,
                            word_count |-> word_count, i |-> i],
                           sentences, max_tokens, overlap)
     IN /\ chunks' = st.chunks
        /\ current_chunk' = st.current_chunk
        /\ word_count' = st.word_count
        /\ i' = st.i
  /\ UNCHANGED <<sentences, max_tokens, overlap, rpc>>
  /\ UNCHANGED <<dbvars, ivars, uvars, svars>>

\* The loop exit and lines 148-150.
Return ==
  /\ rpc = "loop"
  /\ i > Len(sentences)
  /\ chunks' = RegroupReturn([chunks |-> chunks, current_chunk |-> current_chunk,
                              word_count |-> word_count, i |-> i])
  /\ rpc' = "done"
  /\ UNCHANGED <<sentences, max_tokens, overlap, current_chunk, word_count, i>>
  /\ UNCHANGED <<dbvars, ivars, uvars, svars>>

vars == <<rvars, dbvars, ivars, uvars, svars>>

\* =================================================== the ingestion phase
\* os.listdir(data_dir) filtered by extension (chunking.py:156): the names a
\* directory may hold, in listing order.
Names == <<"a.pdf", "b.pdf">>

NameSet == { Names[k] : k \in 1..Len(Names) }

\* A name the directory does not hold.
Absent == "absent"

\* The byte contents a file may have:
\*   "X"  a PDF with one text block of four one-word sentences on page 1,
\*   "Y"  a PDF with one text block of one two-word sentence on page 2,
\*   "W"  a PDF with two text blocks: four one-word sentences on page 1 and
\*        one two-word sentence on page 2,
\*   "Z"  bytes the extractor cannot open (it raises),
\*   "E"  a PDF without text (the extractor returns no block).
Contents == {"X", "Y", "W", "Z", "E"}

\* chunking.py:90-91 - hashlib.sha256(data).hexdigest(): a digest that is
\* different for different bytes.
calculate_sha256_from_bytes(data) == <<"sha256", data>>

\* chunking.py:93-107 - fitz.open raises on bytes it cannot read.
ExtractionRaises(data) == data = "Z"

\* chunking.py:93-107 - the blocks of a readable file; the text of a block is
\* given as what the segmenter makes of it.
extract_blocks_from_pdf(data) ==
  CASE data = "X" ->
         << [page_number |-> 1,
             text |-> <<Sentence(1, 1), Sentence(2, 1), Sentence(3, 1), Sentence(4, 1)>>] >>
    [] data = "Y" ->
         << [page_number |-> 2, text |-> <<Sentence(5, 2)>>] >>
    [] data = "W" ->
         << [page_number |-> 1,
             text |-> <<Sentence(6, 1), Sentence(7, 1), Sentence(8, 1), Sentence(9, 1)>>],
            [page_number |-> 2, text |-> <<Sentence(10, 2)>>] >>
    [] OTHER -> <<>>

\* chunking.py:178-185 - the dispatch on the extension.
ExtractBlocks(file_name, data) ==
  IF file_name \in {"a.pdf", "b.pdf"} THEN extract_blocks_from_pdf(data) ELSE <<>>

\* chunking.py:123-125 - the sentences of a block, the empty ones dropped.
split_with_spacy(text) == SelectSeq(text, LAMBDA sent : sent # <<>>)

RECURSIVE RegroupLoop(_, _, _, _)
\* chunking.py:130-150 - the while loop run to its end.
RegroupLoop(st, ss, M, V) ==
  IF st.i <= Len(ss)
  THEN RegroupLoop(RegroupStep(st, ss, M, V), ss, M, V)
  ELSE RegroupReturn(st)

\* chunking.py:127-150
regroup_sentences(ss, M, V) == RegroupLoop(RegroupInit, ss, M, V)

RECURSIVE ProcessedChunks(_)
\* chunking.py:190-199 - the chunks of the blocks, block by block.
ProcessedChunks(blocks) ==
  IF blocks = <<>> THEN <<>>
  ELSE LET block == Head(blocks)
           sentence_chunks ==
             regroup_sentences(split_with_spacy(block.text), MAX_TOKENS, OVERLAP)
       IN [k \in 1..Len(sentence_chunks) |->
             [content |-> sentence_chunks[k], page_number |-> block.page_number]]
          \o ProcessedChunks(Tail(blocks))

\* Mutant of fetch_existing_hashes: the query returns no digest.
FetchNoHashes(rows) == {}

\* chunking.py:65-67 - SELECT DISTINCT file_hash FROM pdf_chunks.
fetch_existing_hashes(rows) == { rows[k].file_hash : k \in 1..Len(rows) }

\* Mutant of AlreadyProcessed: the digest of the file name is looked up instead
\* of the digest of the bytes.
AlreadyProcessedByName(file_name, file_hash, hashes) ==
  calculate_sha256_from_bytes(file_name) \in hashes

\* chunking.py:172 - `file_hash in existing_hashes`.
AlreadyProcessed(file_name, file_hash, hashes) == file_hash \in hashes

\* Mutant of ChunkNumber: the index of enumerate is used as it is.
ChunkNumberFromZero(idx) == idx - 1

\* chunking.py:203 - f"{idx+1}" for the idx of enumerate(processed_chunks),
\* which counts from 0; idx counts from 1 here.
ChunkNumber(idx) == idx

\* chunking.py:164-213 - process_file: what the future of file_name holds
\* when it is done, the list it returns or the exception it raised.  The two
\* timestamps of a chunk are left out: nothing reads them.
process_file(file_name, file_data, hashes) ==
  LET file_hash == calculate_sha256_from_bytes(file_data)
      blocks == ExtractBlocks(file_name, file_data)
      processed_chunks == ProcessedChunks(blocks)
  IN IF AlreadyProcessed(file_name, file_hash, hashes)
     THEN [kind |-> "ok", chunks |-> <<>>]
     ELSE IF ExtractionRaises(file_data)
     THEN [kind |-> "raise", chunks |-> <<>>]
     ELSE IF blocks = <<>>
     THEN [kind |-> "ok", chunks |-> <<>>]
     ELSE [kind |-> "ok",
           chunks |-> [idx \in 1..Len(processed_chunks) |->
                         [source_file     |-> file_name,
                          chunk_number    |-> ChunkNumber(idx),
                          content         |-> processed_chunks[idx].content,
                          file_hash       |-> file_hash,
                          page_number     |-> processed_chunks[idx].page_number,
                          chunked         |-> TRUE,
                          vector_embedded |-> FALSE]]]

\* chunking.py:69-87 - the rows appended in order, then the commit.
insert_chunks_to_db(rows, chunks_to_insert) == rows \o chunks_to_insert

\* Mutant of InsertAttempt: every INSERT is committed on its own.
InsertAttemptAutocommit(rows, chunks_to_insert, failure) ==
  IF failure = 0
  THEN [raised |-> FALSE, rows |-> insert_chunks_to_db(rows, chunks_to_insert)]
  ELSE [raised |-> TRUE,
        rows |-> insert_chunks_to_db(rows, SubSeq(chunks_to_insert, 1, failure - 1))]

\* chunking.py:69-87 - a call of insert_chunks_to_db during which nothing
\* fails (failure = 0), or statement number `failure` raises: the INSERT of
\* that chunk, or, after the last chunk, the commit of line 87.  The
\* connection does not autocommit, so what was executed before an exception
\* is never committed: the table is as it was.
InsertAttempt(rows, chunks_to_insert, failure) ==
  IF failure = 0
  THEN [raised |-> FALSE, rows |-> insert_chunks_to_db(rows, chunks_to_insert)]
  ELSE [raised |-> TRUE, rows |-> rows]

\* The statements of such a call that can raise.
Failures(chunks_to_insert) == 1..(Len(chunks_to_insert) + 1)

\* chunking.py:156 - the list files of a directory.
Files(d) == SelectSeq(Names, LAMBDA n : d[n] # Absent)

Pending == [kind |-> "pending", chunks |-> <<>>]

\* The locals of a run that is over.
IngestIdle ==
  /\ ipc' = "idle"
  /\ dir' = [n \in NameSet |-> Absent]
  /\ existing_hashes' = {}
  /\ results' = [n \in NameSet |-> Pending]
  /\ nxt' = 1
  /\ new_chunks' = <<>>

\* What hist keeps of a run: its directory, how it ended, the id of the first
\* row it could insert and the number of rows it inserted.
RunRecord(d, how, rows_before, rows_after) ==
  [dir |-> d, outcome |-> how, first |-> Len(rows_before) + 1,
   inserted |-> Len(rows_after) - Len(rows_before)]

\* The directories ingestion alone is run on: every kind of file (several
\* chunks, several blocks, unreadable, without text).  "Y" is a second file
\* of the kind of "X" and is left to the pipeline.
AllDirectories == [NameSet -> (Contents \ {"Y"}) \cup {Absent}]

\* The directories whose files all yield chunks.
ReadableDirectories == [NameSet -> {"X", "Y", Absent}]

\* chunking.py:153-162 - a run starts on some directory: no file (157-159),
\* or the digest snapshot is taken and every file is submitted to the pool.
IngestStart(directories) ==
  /\ ipc = "idle"
  /\ upc = "idle"
  /\ Len(hist) < MaxIngestRuns
  /\ \E d \in directories :
       IF Files(d) = <<>>
       THEN /\ hist' = Append(hist, RunRecord(d, "nofiles", store, store))
            /\ UNCHANGED <<ipc, dir, existing_hashes, results, nxt, new_chunks>>
       ELSE /\ dir' = d
            /\ existing_hashes' = fetch_existing_hashes(store)
            /\ new_chunks' = <<>>
            /\ results' = [n \in NameSet |-> Pending]
            /\ nxt' = 1
            /\ ipc' = "map"
            /\ UNCHANGED hist
  /\ UNCHANGED <<svars, rvars, dbvars, uvars>>

\* Mutant of HashesAfterFile: a worker adds the digest of its file.
HashesWithFile(hashes, file_hash) == hashes \cup {file_hash}

\* chunking.py:164-213 - existing_hashes after process_file ran on a file
\* with this digest: the set is only read (line 172).
HashesAfterFile(hashes, file_hash) == hashes

\* chunking.py:164-213, 216 - a pool worker runs process_file on one file.
Worker(file_name) ==
  /\ ipc = "map"
  /\ dir[file_name] # Absent
  /\ results[file_name].kind = "pending"
  /\ results' = [results EXCEPT
                   ![file_name] = process_file(file_name, dir[file_name], existing_hashes)]
  /\ existing_hashes' =
       HashesAfterFile(existing_hashes, calculate_sha256_from_bytes(dir[file_name]))
  /\ UNCHANGED <<ipc, dir, nxt, new_chunks, hist>>
  /\ UNCHANGED <<svars, rvars, dbvars, uvars>>

\* chunking.py:217-218 - the main thread takes the next result, in the order
\* of files: it extends new_chunks, or the exception of process_file is raised
\* again in the main thread, which leaves process_all_files_from_directory.
Collect ==
  /\ ipc = "map"
  /\ nxt <= Len(Files(dir))
  /\ LET r == results[Files(dir)[nxt]]
     IN /\ r.kind # "pending"
        /\ IF r.kind = "raise"
           THEN /\ hist' = Append(hist, RunRecord(dir, "raised", store, store))
                /\ IngestIdle
           ELSE /\ new_chunks' = new_chunks \o r.chunks
                /\ nxt' = nxt + 1
                /\ UNCHANGED <<ipc, dir, existing_hashes, results, hist>>
  /\ UNCHANGED <<svars, rvars, dbvars, uvars>>

\* chunking.py:220-224 - after the pool is left: the one batch write.
InsertNewChunks ==
  /\ ipc = "map"
  /\ nxt > Len(Files(dir))
  /\ store' = IF new_chunks # <<>> THEN InsertAttempt(store, new_chunks, 0).rows ELSE store
  /\ hist' = Append(hist, RunRecord(dir, "completed", store, store'))
  /\ IngestIdle
  /\ UNCHANGED <<svars, rvars, index, uvars>>

\* chunking.py:220-221, 69-87 - the batch write raises, at one of its
\* statements; the exception leaves process_all_files_from_directory.
InsertFails ==
  /\ ipc = "map"
  /\ nxt > Len(Files(dir))
  /\ new_chunks # <<>>
  /\ \E failure \in Failures(new_chunks) :
       /\ store' = InsertAttempt(store, new_chunks, failure).rows
       /\ hist' = Append(hist, RunRecord(dir, "insert_failed", store, store'))
  /\ IngestIdle
  /\ UNCHANGED <<svars, rvars, index, uvars>>

\* ====================================================== the upsert phase
\* The elements of a list.
Range(seq) == { seq[k] : k \in 1..Len(seq) }

\* Mutant of get_chunks_from_db: the SELECT has lost its WHERE clause.
GetEveryChunk(rows) ==
  [n \in 1..Len(rows) |->
     [id           |-> n,
      source_file  |-> rows[n].source_file,
      chunk_number |-> rows[n].chunk_number,
      content      |-> rows[n].content,
      page_number  |-> rows[n].page_number]]

\* vector_embedding.py:27-44 - SELECT id, source_file, chunk_number, content,
\* page_number FROM pdf_chunks WHERE vector_embedded = 0.
get_chunks_from_db(rows) ==
  LET ids == SelectSeq([k \in 1..Len(rows) |-> k],
                       LAMBDA k : ~rows[k].vector_embedded)
  IN [n \in 1..Len(ids) |->
        [id           |-> ids[n],
         source_file  |-> rows[ids[n]].source_file,
         chunk_number |-> rows[ids[n]].chunk_number,
         content      |-> rows[ids[n]].content,
         page_number  |-> rows[ids[n]].page_number]]

\* Mutant of update_vectorized_flag: the UPDATE has lost its WHERE clause.
UpdateEveryRow(rows, chunk_ids) ==
  [k \in 1..Len(rows) |->
     IF chunk_ids # <<>> THEN [rows[k] EXCEPT !.vector_embedded = TRUE] ELSE rows[k]]

\* vector_embedding.py:46-61 - UPDATE pdf_chunks SET vector_embedded = 1
\* WHERE id IN (chunk_ids); nothing is done for an empty list.
update_vectorized_flag(rows, chunk_ids) ==
  [k \in 1..Len(rows) |->
     IF k \in Range(chunk_ids) THEN [rows[k] EXCEPT !.vector_embedded = TRUE] ELSE rows[k]]

\* The timeout argument of a requests.post call: <<>> when none is given
\* (requests then waits for the response without limit), <<t>> for t seconds.
\* vector_embedding.py:67 gives none.
GetEmbeddingTimeout == <<>>

\* llm.py:62 - timeout=30.
QueryEmbeddingTimeout == <<30>>

\* requests.post(url, json=..., timeout=...) followed by raise_for_status,
\* when the service answers, fails ("RequestException": no connection, an
\* error status) or never responds ("no_response"): without a timeout the
\* call to a service that never responds does not return ("blocks"), with
\* one it raises Timeout, a RequestException.
requests_post(timeout, reply) ==
  IF reply = "no_response"
  THEN (IF timeout = <<>> THEN "blocks" ELSE "RequestException")
  ELSE reply

\* vector_embedding.py:65-70 - the vector the service returns for a text.
get_embedding(text) == <<"embedding", text>>

\* vector_embedding.py:105-108 - uuid5(NAMESPACE_DNS, source_file + "_" +
\* chunk_number): the same for the same pair, different for different pairs.
stable_uuid(chunk) == <<"uuid5", chunk.source_file, chunk.chunk_number>>

\* vector_embedding.py:123-127, 129-133 - the object handed to the index.
DataObject(chunk) ==
  [uuid       |-> stable_uuid(chunk),
   properties |-> [content     |-> chunk.content,
                   source_file |-> chunk.source_file,
                   page_number |-> chunk.page_number],
   vector     |-> get_embedding(chunk.content)]

\* The objects of the collection stored under an id.
ObjectsWithId(objects, uuid) == { o \in objects : o.uuid = uuid }

\* Mutant of DataInsert: the write replaces the object stored under the id.
DataReplace(objects, obj) ==
  [ok |-> TRUE, objects |-> (objects \ ObjectsWithId(objects, obj.uuid)) \cup {obj}]

\* vector_embedding.py:129-133 - collection.data.insert creates an object.
\* Creation is not an upsert: for an id that already exists the index answers
\* 422 "id already exists" and the client raises, the stored object is left as
\* it was; otherwise the object is stored.  The reply and the collection after
\* the call.
DataInsert(objects, obj) ==
  IF ObjectsWithId(objects, obj.uuid) # {}
  THEN [ok |-> FALSE, objects |-> objects]
  ELSE [ok |-> TRUE, objects |-> objects \cup {obj}]

\* Mutant of SuccessfulIdsAfter: a failure empties the list of the batch.
SuccessfulIdsLostOnFailure(ids, chunk, result) ==
  IF result = "ok" THEN Append(ids, chunk.id) ELSE <<>>

\* vector_embedding.py:117-139 - successful_ids after one chunk: the id is
\* appended once the insert has returned (line 135); `continue` on an empty
\* content (119) and in the except branch (137-139) leave the list as it is.
SuccessfulIdsAfter(ids, chunk, result) ==
  IF result = "ok" THEN Append(ids, chunk.id) ELSE ids

\* vector_embedding.py:72-75 - whether position k ends a batch of batch_chunks.
EndsBatch(k, n) == k % EMBEDDING_BATCH_SIZE = 0 \/ k = n

\* vector_embedding.py:72-75 - the first position of the batch that holds k.
BatchStart(k) == ((k - 1) \div EMBEDDING_BATCH_SIZE) * EMBEDDING_BATCH_SIZE + 1

NoWrite == [made |-> FALSE, id |-> 0, replaced |-> FALSE, ok |-> FALSE]

NoFlagCall == [made |-> FALSE, ids |-> <<>>, from |-> 1, to |-> 0]

\* vector_embedding.py:145-155 - main with --weaviate: the unflagged rows are
\* read; with none the run is over, otherwise store_embeddings starts.
UpsertStart ==
  /\ upc = "idle"
  /\ ipc = "idle"
  /\ uruns < MaxUpsertRuns
  /\ uruns' = uruns + 1
  /\ resumed' = (ulast = "aborted")
  /\ uchunks' = get_chunks_from_db(store)
  /\ upos' = 1
  /\ successful_ids' = <<>>
  /\ outcome' = <<>>
  /\ last_write' = NoWrite
  /\ last_flag_call' = NoFlagCall
  /\ IF uchunks' = <<>>
     THEN upc' = "idle" /\ ulast' = "completed"
     ELSE upc' = "chunk" /\ ulast' = "none"
  /\ UNCHANGED <<confirmed>>
  /\ UNCHANGED <<svars, rvars, dbvars, ivars>>

\* vector_embedding.py:116-139 - the loop goes on to the next chunk of the
\* batch, or to line 141 after the last one.
NextChunkOfBatch(result) ==
  /\ successful_ids' = SuccessfulIdsAfter(successful_ids, uchunks[upos], result)
  /\ outcome' = Append(outcome, result)
  /\ upos' = upos + 1
  /\ upc' = IF EndsBatch(upos, Len(uchunks)) THEN "flush" ELSE "chunk"
  /\ UNCHANGED <<uchunks, uruns, ulast, resumed, last_flag_call>>
  /\ UNCHANGED <<svars, rvars, store, ivars>>

\* Mutant of HasContent: the test of lines 118-119 is gone.
HasContentAlways(chunk) == TRUE

\* vector_embedding.py:118 - chunk.get("content") is truthy: the content is
\* neither NULL nor the empty string.
HasContent(chunk) == chunk.content # <<>>

\* What the two services do for one chunk: the embedding request fails
\* (get_embedding raises), the embedding service never responds, the
\* embedding is there and the index cannot be reached (the insert raises), or
\* both services answer.
ServiceBehaviours ==
  {"embedding_fails", "embedding_unresponsive", "index_unreachable", "both_answer"}

\* vector_embedding.py:116-139 - the loop body for one chunk.  A chunk without
\* content is passed over (118-119).  Otherwise the embedding is requested
\* and the object inserted under its stable id; any exception is caught
\* (137-139) and the loop goes on.
HandleChunk ==
  /\ upc = "chunk"
  /\ LET chunk == uchunks[upos]
         obj == DataObject(chunk)
         reply == DataInsert(index, obj)
     IN IF ~HasContent(chunk)
        THEN /\ NextChunkOfBatch("skipped")
             /\ UNCHANGED <<index, confirmed, last_write>>
        ELSE \E services \in ServiceBehaviours :
               IF services = "both_answer"
               THEN /\ index' = reply.objects
                    /\ confirmed' = IF reply.ok THEN confirmed \cup {chunk.id}
                                                ELSE confirmed
                    /\ last_write' =
                         [made |-> TRUE, id |-> chunk.id, ok |-> reply.ok,
                          replaced |-> \E o \in ObjectsWithId(index, obj.uuid) :
                                          o.properties.content # chunk.content]
                    /\ NextChunkOfBatch(IF reply.ok THEN "ok" ELSE "refused")
               ELSE IF /\ services = "embedding_unresponsive"
                       /\ requests_post(GetEmbeddingTimeout, "no_response") = "blocks"
               THEN /\ upc' = "blocked"
                    /\ UNCHANGED <<uchunks, upos, successful_ids, uruns, ulast, resumed,
                                   outcome, confirmed, last_write, last_flag_call>>
                    /\ UNCHANGED <<svars, rvars, dbvars, ivars>>
               ELSE /\ NextChunkOfBatch("failed")
                    /\ UNCHANGED <<index, confirmed, last_write>>

\* The locals after line 141 returned: the next batch, or the run is over.
AfterFlush ==
  /\ successful_ids' = <<>>
  /\ IF upos > Len(uchunks)
     THEN upc' = "idle" /\ ulast' = "completed"
     ELSE upc' = "chunk" /\ ulast' = ulast

\* What last_flag_call keeps of the call of line 141.
FlagCall ==
  [made |-> TRUE, ids |-> successful_ids, from |-> BatchStart(upos - 1), to |-> upos - 1]

\* vector_embedding.py:141, 46-61 - update_vectorized_flag(successful_ids)
\* returns.
FlagUpdate ==
  /\ upc = "flush"
  /\ store' = update_vectorized_flag(store, successful_ids)
  /\ last_flag_call' = FlagCall
  /\ AfterFlush
  /\ UNCHANGED <<uchunks, upos, uruns, resumed, outcome, confirmed, last_write>>
  /\ UNCHANGED <<svars, rvars, index, ivars>>

\* vector_embedding.py:50-59 - the store cannot be reached: the call raises
\* out of store_embeddings and main; with an empty list nothing is attempted.
FlagUpdateFails ==
  /\ upc = "flush"
  /\ successful_ids # <<>>
  /\ last_flag_call' = FlagCall
  /\ successful_ids' = <<>>
  /\ upc' = "idle"
  /\ ulast' = "aborted"
  /\ UNCHANGED <<uchunks, upos, uruns, resumed, outcome, confirmed, last_write>>
  /\ UNCHANGED <<svars, rvars, dbvars, ivars>>

\* The process of vector_embedding.py is killed while store_embeddings is at
\* work: its locals are gone, table and collection stay as they are.
Killed ==
  /\ upc \in {"chunk", "flush", "blocked"}
  /\ successful_ids' = <<>>
  /\ upc' = "idle"
  /\ ulast' = "aborted"
  /\ UNCHANGED <<uchunks, upos, uruns, resumed, outcome, confirmed, last_write,
                 last_flag_call>>
  /\ UNCHANGED <<svars, rvars, dbvars, ivars>>

\* ======================================================= retrieval
\* llm.py:80 - the text returned when the index gives no hit (the strings of
\* lines 80, 86 and 88 share the prefix of a warning sign, left out here).  A
\* returned text is modelled by its lines.
NoHitsSentinel == <<<<"No relevant information found in current knowledge base.">>>>

\* llm.py:86
EmbeddingErrorSentinel ==
  <<<<"Unable to search knowledge base due to embedding service error.">>>>

\* llm.py:88
SearchErrorSentinel == <<<<"Unable to search knowledge base due to search error.">>>>

ErrorSentinels == {EmbeddingErrorSentinel, SearchErrorSentinel}

\* llm.py:74-77 - f"[{source_file} - Page {page_number}] {content}": the line
\* of one hit, by its three fields.
HitLine(o) == <<o.properties.source_file, o.properties.page_number, o.properties.content>>

\* llm.py:69 - what collection.query.hybrid(..., limit=top_k) can return: at
\* most top_k objects of the collection, none twice, in some order.
HitLists(objects, top_k) ==
  { h \in UNION { [1..n -> objects] : n \in 0..top_k } :
      \A a \in 1..Len(h), b \in 1..Len(h) : h[a] = h[b] => a = b }

\* llm.py:56-65 - the ways the embedding request fails: requests raises (no
\* connection, an error status at raise_for_status), the service never
\* responds, or the answer has no "embedding" key.
EmbeddingFailures == {"RequestException", "no_response", "KeyError"}

\* What the services do during one call: the embedding request fails and
\* the index is not asked; the index query raises; or both answer, the index
\* with a list of hits.
Scenarios(objects, top_k) ==
  { [embedding |-> e, query |-> "not_called", hits |-> <<>>] : e \in EmbeddingFailures }
  \cup { [embedding |-> "answers", query |-> "raises", hits |-> <<>>] }
  \cup { [embedding |-> "answers", query |-> "answers", hits |-> h] :
           h \in HitLists(objects, top_k) }

\* llm.py:54-82 - the body of the try: the exception that leaves it, or the
\* text it returns ("blocks" when the request of lines 56-63 does not return).
TryBody(sc) ==
  LET posted == IF sc.embedding = "KeyError" THEN "answers"
                ELSE requests_post(QueryEmbeddingTimeout, sc.embedding)
  IN IF posted # "answers" THEN [exception |-> posted, value |-> <<>>]
     ELSE IF sc.embedding = "KeyError" THEN [exception |-> "KeyError", value |-> <<>>]
     ELSE IF sc.query # "answers" THEN [exception |-> "WeaviateQueryError", value |-> <<>>]
     ELSE IF sc.hits = <<>> THEN [exception |-> "none", value |-> NoHitsSentinel]
     ELSE [exception |-> "none", value |-> [k \in 1..Len(sc.hits) |-> HitLine(sc.hits[k])]]

\* Mutant of Except: the second handler is gone.
ExceptRequestOnly(exception) ==
  IF exception = "RequestException"
  THEN [exception |-> "none", value |-> EmbeddingErrorSentinel]
  ELSE [exception |-> exception, value |-> <<>>]

\* llm.py:84-88 - the two handlers: RequestException first, then Exception,
\* which every exception of the body is.
Except(exception) ==
  IF exception = "RequestException"
  THEN [exception |-> "none", value |-> EmbeddingErrorSentinel]
  ELSE [exception |-> "none", value |-> SearchErrorSentinel]

\* llm.py:52-88 - hybrid_search under a scenario.
hybrid_search(sc) ==
  LET body == TryBody(sc)
  IN IF body.exception \in {"none", "blocks"} THEN body ELSE Except(body.exception)

SearchOff ==
  [pc |-> "idle", top_k |-> 0, embedding |-> "not_called", query |-> "not_called",
   hits |-> <<>>, value |-> <<>>]

\* A call hybrid_search(client, query, top_k) on the collection as it is.
HybridSearch ==
  /\ \E top_k \in 1..MaxTopK :
       \E sc \in Scenarios(index, top_k) :
         LET out == hybrid_search(sc)
         IN search' = [pc        |-> CASE out.exception = "none" -> "returned"
                                        [] out.exception = "blocks" -> "blocked"
                                        [] OTHER -> "raised",
                       top_k     |-> top_k,
                       embedding |-> sc.embedding,
                       query     |-> sc.query,
                       hits      |-> sc.hits,
                       value     |-> out.value]
  /\ UNCHANGED <<environ, embedding_requests>>
  /\ UNCHANGED <<rvars, dbvars, ivars, uvars>>

\* ================================================ embedding configuration
\* The environment variables the embedding requests depend on.
EnvNames == {"OLLAMA_URL", "OLLAMA_MODEL", "EMBED_MODEL"}

\* A variable that is not set.
Unset == "unset"

\* The values a variable may be set to.
EnvValues(name) ==
  IF name = "OLLAMA_URL"
  THEN {"http://localhost:11434/api/embeddings", "http://ollama:11434/api/embeddings"}
  ELSE IF name = "OLLAMA_MODEL"
  THEN {"nomic-embed-text", "mxbai-embed-large", "llama2:7b"}
  ELSE {"nomic-embed-text", "mxbai-embed-large"}

\* The environments: every variable unset or set to one of its values.
Environments ==
  { e \in [EnvNames -> UNION { EnvValues(n) \cup {Unset} : n \in EnvNames }] :
      \A n \in EnvNames : e[n] \in EnvValues(n) \cup {Unset} }

\* os.getenv(name, default)
os_getenv(e, name, default) == IF e[name] = Unset THEN default ELSE e[name]

\* vector_embedding.py:18-19, 67 - the request of get_embedding: posted to
\* OLLAMA_URL with model OLLAMA_MODEL, both read from the environment.
GetEmbeddingRequest(e) ==
  [made  |-> TRUE,
   url   |-> os_getenv(e, "OLLAMA_URL", "http://localhost:11434/api/embeddings"),
   model |-> os_getenv(e, "OLLAMA_MODEL", "nomic-embed-text")]

\* llm.py:56-60 - the request of hybrid_search: posted to a fixed URL with
\* model EMBED_MODEL read from the environment.
QueryEmbeddingRequest(e) ==
  [made  |-> TRUE,
   url   |-> "http://localhost:11434/api/embeddings",
   model |-> os_getenv(e, "EMBED_MODEL", "nomic-embed-text")]

NoRequest == [made |-> FALSE, url |-> "", model |-> ""]

\* vector_embedding.py:65-70 - get_embedding sends its request.
EmbedDocument ==
  /\ ~embedding_requests.document.made
  /\ embedding_requests' =
       [embedding_requests EXCEPT !.document = GetEmbeddingRequest(environ)]
  /\ UNCHANGED <<search, environ>>
  /\ UNCHANGED <<rvars, dbvars, ivars, uvars>>

\* llm.py:56-63 - hybrid_search sends its query embedding request.
EmbedQuery ==
  /\ ~embedding_requests.query.made
  /\ embedding_requests' =
       [embedding_requests EXCEPT !.query = QueryEmbeddingRequest(environ)]
  /\ UNCHANGED <<search, environ>>
  /\ UNCHANGED <<rvars, dbvars, ivars, uvars>>

\* ======================================================= specifications
RegroupOff ==
  /\ sentences = <<>>
  /\ max_tokens = 1
  /\ overlap = 0
  /\ chunks = <<>>
  /\ current_chunk = <<>>
  /\ word_count = 0
  /\ i = 1
  /\ rpc = "off"

\* No program running.
ProgramsOff ==
  /\ ipc = "idle"
  /\ dir = [n \in NameSet |-> Absent]
  /\ existing_hashes = {}
  /\ results = [n \in NameSet |-> Pending]
  /\ nxt = 1
  /\ new_chunks = <<>>
  /\ hist = <<>>
  /\ upc = "idle"
  /\ uchunks = <<>>
  /\ upos = 1
  /\ successful_ids = <<>>
  /\ uruns = 0
  /\ resumed = FALSE
  /\ ulast = "none"
  /\ outcome = <<>>
  /\ confirmed = {}
  /\ last_write = NoWrite
  /\ last_flag_call = NoFlagCall
  /\ search = SearchOff
  /\ embedding_requests = [document |-> NoRequest, query |-> NoRequest]

\* An empty table, an empty collection and no program running.
PipelineOff ==
  /\ store = <<>>
  /\ index = {}
  /\ environ = [n \in EnvNames |-> Unset]
  /\ ProgramsOff

Init == RegroupOff /\ PipelineOff

\* A row of pdf_chunks that chunking.py did not write: the table is plain
\* MySQL, content is a nullable LONGTEXT, and the upsert program reads
\* whatever rows are there.
SeededRow(k, content) ==
  [source_file     |-> "a.pdf",
   chunk_number    |-> k,
   content         |-> content,
   file_hash       |-> calculate_sha256_from_bytes("E"),
   page_number     |-> 1,
   chunked         |-> TRUE,
   vector_embedded |-> FALSE]

\* The contents of such rows: none, or one word.
SeededContents == {<<>>, Sentence(1, 1)}

\* The tables of one to MaxSeededRows such rows.
SeededTables ==
  UNION { { [k \in 1..n |-> SeededRow(k, c[k])] : c \in [1..n -> SeededContents] }
          : n \in 1..MaxSeededRows }

\* The upsert program started on a table it finds, the collection empty.
InitUpsert ==
  /\ RegroupOff
  /\ store \in SeededTables
  /\ index = {}
  /\ environ = [n \in EnvNames |-> Unset]
  /\ ProgramsOff

\* Upsert runs alone, on every such table.
NextUpsert == UpsertStart \/ HandleChunk \/ FlagUpdate \/ FlagUpdateFails \/ Killed

SpecUpsert == InitUpsert /\ [][NextUpsert]_vars

\* A chunk as store_embeddings writes it to the collection.
IndexedChunk(k) ==
  [id |-> k, source_file |-> "a.pdf", chunk_number |-> k,
   content |-> Sentence(1, 1), page_number |-> 1]

\* The collections hybrid_search is tried on.
Collections == SUBSET { DataObject(IndexedChunk(k)) : k \in 1..MaxSeededRows }

\* Retrieval alone, on every such collection.
InitSearch ==
  /\ RegroupOff
  /\ store = <<>>
  /\ index \in Collections
  /\ environ = [n \in EnvNames |-> Unset]
  /\ ProgramsOff

NextSearch == HybridSearch

SpecSearch == InitSearch /\ [][NextSearch]_vars

\* The two embedding requests, under every environment.
InitConfig ==
  /\ RegroupOff
  /\ store = <<>>
  /\ index = {}
  /\ environ \in Environments
  /\ ProgramsOff

NextConfig == EmbedDocument \/ EmbedQuery

SpecConfig == InitConfig /\ [][NextConfig]_vars

\* The chunker alone, on every input within the bounds.
NextChunk == Call \/ LoopStep \/ Return

SpecChunk == Init /\ [][NextChunk]_vars

\* Ingestion runs alone, on every directory.
NextIngest ==
  \/ IngestStart(AllDirectories)
  \/ \E n \in NameSet : Worker(n)
  \/ Collect
  \/ InsertNewChunks
  \/ InsertFails

SpecIngest == Init /\ [][NextIngest]_vars

\* Ingestion runs and upsert runs, one program at a time.  Files that yield
\* no row make no difference to the upsert phase and are left out here.
\* A kill of the upsert process leaves table and collection as a failed flag
\* update after the same chunks does, and is left to SpecUpsert.
Next ==
  \/ IngestStart(ReadableDirectories)
  \/ \E n \in NameSet : Worker(n)
  \/ Collect
  \/ InsertNewChunks
  \/ UpsertStart
  \/ HandleChunk
  \/ FlagUpdate
  \/ FlagUpdateFails

Spec == Init /\ [][Next]_vars

\* ------------------------------------------------ claims on regroup_sentences
\* " ".join(sentences[a..b]) of the input, tokenised (empty when a = b + 1).
JoinRange(a, b) == Flatten(SubSeq(sentences, a, b))

\* The word count of the input sentences a..b.
WordsOfRange(a, b) == SumLen(SubSeq(sentences, a, b))

\* Where the shortest trailing run of sentences a..b with at least V words
\* starts; a (the whole run) when the run has fewer than V words.
ShortestTrailingRun(a, b, V) ==
  LET ok == { p \in a..(b + 1) : WordsOfRange(p, b) >= V }
  IN IF ok = {} THEN a ELSE CHOOSE p \in ok : \A q \in ok : q <= p

\* The step the loop is about to take handles an oversized sentence with an
\* empty accumulator.
OversizedAtEmpty ==
  /\ rpc = "loop"
  /\ i <= Len(sentences)
  /\ current_chunk = <<>>
  /\ Len(sentences[i]) > max_tokens

\* C7: a sentence with more than max_tokens words that arrives when the
\* accumulator is empty is accepted (appended, alone) and the loop moves on
\* to the following sentence.
C7_OversizedSentenceAccepted ==
  [][OversizedAtEmpty => (current_chunk' = <<sentences[i]>> /\ i' = i + 1)]_vars

\* C8: every returned chunk has at most max_tokens words, except a chunk
\* that is one sentence which alone exceeds max_tokens.
C8_ChunkBound ==
  rpc = "done" =>
    \A k \in 1..Len(chunks) :
      \/ Len(chunks[k]) <= max_tokens
      \/ \E s \in 1..Len(sentences) :
           chunks[k] = sentences[s] /\ Len(sentences[s]) > max_tokens

\* C8 witness: a returned list of several chunks, one of them a full chunk of
\* several sentences.
C8_Witness ==
  /\ rpc = "done"
  /\ Len(chunks) >= 2
  /\ \E k \in 1..Len(chunks), a \in 1..Len(sentences), b \in 1..Len(sentences) :
       a < b /\ chunks[k] = JoinRange(a, b) /\ Len(chunks[k]) = max_tokens

\* C9: of two consecutive returned chunks, the second starts with exactly the
\* shortest trailing run of whole sentences of the first that has at least
\* overlap words (the whole first chunk when it has fewer), and goes on with
\* later sentences only.
C9_OverlapCorrect ==
  rpc = "done" =>
    \A k \in 1..(Len(chunks) - 1) :
      \E a \in 1..Len(sentences), b \in 1..Len(sentences), b2 \in 1..Len(sentences) :
        /\ a <= b /\ b < b2
        /\ chunks[k] = JoinRange(a, b)
        /\ chunks[k + 1] = JoinRange(ShortestTrailingRun(a, b, overlap), b2)

\* C9 witness: a returned list whose overlap is a proper, non-empty part of
\* the first chunk and is two sentences long.
C9_Witness ==
  /\ rpc = "done"
  /\ Len(chunks) >= 2
  /\ overlap >= 2
  /\ \E a \in 1..Len(sentences), b \in 1..Len(sentences) :
       /\ chunks[1] = JoinRange(a, b)
       /\ ShortestTrailingRun(a, b, overlap) > a
       /\ ShortestTrailingRun(a, b, overlap) < b

\* The example of the specification: A., B., C., D. with M = 3 and V = 1.
ExampleInput ==
  /\ sentences = <<Sentence(1, 1), Sentence(2, 1), Sentence(3, 1), Sentence(4, 1)>>
  /\ max_tokens = 3
  /\ overlap = 1

\* The chunks 'A. B. C.' and 'C. D.'.
ExampleOutput == <<JoinRange(1, 3), JoinRange(3, 4)>>

\* The chunks of the list that were sealed by a sentence that did not fit: all
\* of them while the loop runs, all but the final one once it has returned.
Sealed == IF rpc = "done" THEN 1..(Len(chunks) - 1) ELSE 1..Len(chunks)

\* C10: greedy packing.  At every point of a call every chunk emitted so far
\* is within max_tokens (a sentence is appended only when it fits) and every
\* sealed chunk is maximal (the sentence that follows it would not have fit);
\* the example returns exactly 'A. B. C.' and 'C. D.'.
C10_GreedyPacking ==
  /\ \A k \in 1..Len(chunks) : Len(chunks[k]) <= max_tokens
  /\ \A k \in Sealed :
       \E a \in 1..Len(sentences), b \in 0..(Len(sentences) - 1) :
         /\ a <= b + 1
         /\ chunks[k] = JoinRange(a, b)
         /\ Len(chunks[k]) + Len(sentences[b + 1]) > max_tokens
  /\ (rpc = "done" /\ ExampleInput) => chunks = ExampleOutput

\* C10 witness: the example has been chunked.
C10_Witness == rpc = "done" /\ ExampleInput /\ chunks = ExampleOutput
\* ------------------------------------------------ claims on the ingestion phase
\* The digests that have rows among the first n rows of the table.
DigestsOfFirstRows(n) == { store[k].file_hash : k \in 1..n }

\* The ids of the rows run s of hist inserted.
RowsOfRun(s) == hist[s].first .. (hist[s].first + hist[s].inserted - 1)

\* C1: once a run has come to its end on a directory, a later run on the
\* same directory (same names, same bytes) inserts no row.
C1_IdempotentIngestion ==
  \A r \in 1..Len(hist), s \in 1..Len(hist) :
    (r < s /\ hist[r].outcome \in {"completed", "nofiles"} /\ hist[s].dir = hist[r].dir)
      => hist[s].inserted = 0

\* C1 witness: a run that inserted rows, run again to its end on the same
\* directory.
C1_Witness ==
  \E r \in 1..Len(hist), s \in 1..Len(hist) :
    /\ r < s
    /\ hist[r].outcome = "completed" /\ hist[r].inserted > 0
    /\ hist[s].dir = hist[r].dir
    /\ hist[s].outcome = "completed" /\ hist[s].inserted = 0

\* C2: a file whose digest has rows in the table when a run starts gives no
\* chunk in that run, whatever its name; so no row of a run carries a digest
\* that an earlier row carries.
C2_ExactlyOnceByContent ==
  /\ ipc = "map" =>
       \A n \in NameSet :
         (/\ dir[n] # Absent
          /\ results[n].kind # "pending"
          /\ calculate_sha256_from_bytes(dir[n]) \in DigestsOfFirstRows(Len(store)))
           => (results[n].kind = "ok" /\ results[n].chunks = <<>>)
  /\ \A s \in 1..Len(hist) :
       \A j \in RowsOfRun(s) :
         store[j].file_hash \notin DigestsOfFirstRows(hist[s].first - 1)

\* C2 witness: the bytes X ingested as a.pdf in one run and presented as
\* b.pdf in the next, which inserts nothing.
C2_Witness ==
  /\ Len(hist) = 2
  /\ hist[1].dir = [n \in NameSet |-> IF n = "a.pdf" THEN "X" ELSE Absent]
  /\ hist[1].outcome = "completed" /\ hist[1].inserted > 0
  /\ hist[2].dir = [n \in NameSet |-> IF n = "b.pdf" THEN "X" ELSE Absent]
  /\ hist[2].outcome = "completed" /\ hist[2].inserted = 0

RECURSIVE ChunksOfGoodFiles(_, _, _)
\* The number of chunks of the files of d, in the order of names, that can be
\* read and extracted, given the digests the table held before the run.
ChunksOfGoodFiles(names, d, before) ==
  IF names = <<>> THEN 0
  ELSE (IF d[Head(names)] # Absent /\ ~ExtractionRaises(d[Head(names)])
        THEN Len(process_file(Head(names), d[Head(names)], before).chunks)
        ELSE 0)
       + ChunksOfGoodFiles(Tail(names), d, before)

\* C5: when the extraction of one file of a run raises, the run is not
\* aborted: it comes to its end and the chunks of every other file of the
\* run are inserted.
C5_PerFileFailureIsolation ==
  \A s \in 1..Len(hist) :
    (\E n \in NameSet : hist[s].dir[n] # Absent /\ ExtractionRaises(hist[s].dir[n]))
      => /\ hist[s].outcome = "completed"
         /\ hist[s].inserted =
              ChunksOfGoodFiles(Names, hist[s].dir, DigestsOfFirstRows(hist[s].first - 1))

\* ------------------------------------------------ claims on the upsert phase
\* The ids of the chunks at positions from..to of the run whose embedding
\* request and index write both succeeded, in order.
OkIdsOfBatch(from, to) ==
  LET pos == SelectSeq([k \in 1..(to - from + 1) |-> from + k - 1],
                       LAMBDA k : outcome[k] = "ok")
  IN [n \in 1..Len(pos) |-> uchunks[pos[n]].id]

\* C3: a row is flagged vector_embedded only if an index write of that chunk
\* was confirmed, and update_vectorized_flag is called, per batch, with
\* exactly the ids of the chunks of the batch whose embedding request and
\* index write both succeeded.
C3_FlagOnlyAfterConfirmedWrite ==
  /\ \A id \in 1..Len(store) : store[id].vector_embedded => id \in confirmed
  /\ last_flag_call.made =>
       last_flag_call.ids = OkIdsOfBatch(last_flag_call.from, last_flag_call.to)

\* C3 witness: the flag update of a batch in which one chunk failed and
\* another succeeded has flagged the one that succeeded.
C3_Witness ==
  /\ last_flag_call.made
  /\ \E k \in last_flag_call.from..last_flag_call.to,
        j \in last_flag_call.from..last_flag_call.to :
       /\ outcome[k] = "failed"
       /\ outcome[j] = "ok"
       /\ store[uchunks[j].id].vector_embedded
       /\ ~store[uchunks[k].id].vector_embedded

\* C4: a write of a chunk whose (source_file, chunk_number) already has an
\* index entry with other content succeeds and overwrites it: afterwards the
\* index holds exactly one entry for the pair, with the content just written.
C4_OverwritesSameEntry ==
  (last_write.made /\ last_write.replaced) =>
    LET row == store[last_write.id]
        objs == ObjectsWithId(index, stable_uuid(row))
    IN /\ last_write.ok
       /\ Cardinality(objs) = 1
       /\ \A o \in objs : o.properties.content = row.content

\* C6: a chunk whose embedding request or index write failed is left
\* unflagged, and a run of store_embeddings that returns has handled every
\* chunk it was given, whatever failed before it, with exactly the chunks
\* whose embedding request and index write succeeded flagged vector_embedded.
C6_PerChunkFailureIsolation ==
  /\ \A k \in 1..Len(outcome) :
       outcome[k] # "ok" => ~store[uchunks[k].id].vector_embedded
  /\ (upc = "idle" /\ ulast = "completed") =>
       /\ Len(outcome) = Len(uchunks)
       /\ \A k \in 1..Len(uchunks) :
            outcome[k] = "ok" => store[uchunks[k].id].vector_embedded

\* C6 witness: a run that returned after its first chunk failed; the next
\* chunk of the same batch and a chunk of a later batch succeeded and are
\* flagged.
C6_Witness ==
  /\ upc = "idle" /\ ulast = "completed"
  /\ Len(uchunks) > EMBEDDING_BATCH_SIZE
  /\ outcome[1] = "failed" /\ ~store[uchunks[1].id].vector_embedded
  /\ outcome[2] = "ok" /\ store[uchunks[2].id].vector_embedded
  /\ outcome[Len(uchunks)] = "ok" /\ store[uchunks[Len(uchunks)].id].vector_embedded

\* The ids of the rows the current upsert run selected.
SelectedIds == { uchunks[k].id : k \in 1..Len(uchunks) }

\* C11: no step changes vector_embedded from true to false, and a row that is
\* flagged is left alone by every step: it is not among the chunks a starting
\* run selects, no step handles it (no embedding is requested for it), the
\* index entry under its id stays as it is and the row itself is not written.
C11_MonotonicFlag ==
  [][\A id \in 1..Len(store) :
       store[id].vector_embedded =>
         /\ store'[id] = store[id]
         /\ ObjectsWithId(index', stable_uuid(store[id]))
              = ObjectsWithId(index, stable_uuid(store[id]))
         /\ uruns' # uruns => id \notin { uchunks'[k].id : k \in 1..Len(uchunks') }
         /\ Len(outcome') = Len(outcome) + 1 => uchunks[upos].id # id]_vars

\* C11 witness: an upsert run at work on the chunks it selected while an
\* earlier run's row is flagged and not among them.
C11_Witness ==
  /\ upc = "chunk"
  /\ Len(outcome) >= 1
  /\ \E id \in 1..Len(store) : store[id].vector_embedded /\ id \notin SelectedIds

\* C12: a chunk whose content is empty is passed over: no embedding is
\* requested for it and nothing is written to the index for it (its outcome
\* is "skipped", no write of it was made or confirmed), its row stays
\* vector_embedded = false, and every upsert run selects it again.
C12_EmptyContentLeftAlone ==
  /\ \A k \in 1..Len(outcome) :
       uchunks[k].content = <<>> => outcome[k] = "skipped"
  /\ \A id \in 1..Len(store) :
       store[id].content = <<>> =>
         /\ ~store[id].vector_embedded
         /\ id \notin confirmed
         /\ last_write.made => last_write.id # id
         /\ uruns >= 1 => id \in SelectedIds

\* C12 witness: a second upsert run has returned; it selected a row without
\* content again and passed over it, and a row with content is flagged.
C12_Witness ==
  /\ uruns >= 2 /\ upc = "idle" /\ ulast = "completed"
  /\ \E k \in 1..Len(uchunks) :
       /\ uchunks[k].content = <<>>
       /\ outcome[k] = "skipped"
       /\ ~store[uchunks[k].id].vector_embedded
  /\ \E id \in 1..Len(store) : store[id].vector_embedded

\* --------------------------------------------------- claims on retrieval
\* C13: a call of hybrid_search never ends by an exception; with both
\* services answering and no hit it returns the no-hits sentinel; when the
\* embedding request or the index query fails it returns an error sentinel;
\* the no-hits sentinel is none of the error sentinels and not the empty text.
C13_RetrievalSentinels ==
  /\ search.pc # "raised"
  /\ search.pc = "returned" =>
       /\ (search.embedding = "answers" /\ search.query = "answers" /\ search.hits = <<>>)
            => search.value = NoHitsSentinel
       /\ (search.embedding # "answers" \/ search.query # "answers")
            => search.value \in ErrorSentinels
  /\ NoHitsSentinel \notin ErrorSentinels
  /\ NoHitsSentinel # <<>>

\* C13 witness: a call on a collection that holds objects during which the
\* embedding service answered and the index query raised has returned.
C13_Witness ==
  /\ index # {}
  /\ search.pc = "returned"
  /\ search.embedding = "answers" /\ search.query = "raises"
  /\ search.value = SearchErrorSentinel

\* An upsert run during which both services answered every request and the
\* flag updates went through has returned.
HealthyRunReturned ==
  /\ upc = "idle" /\ ulast = "completed"
  /\ Len(outcome) = Len(uchunks)
  /\ \A k \in 1..Len(outcome) : outcome[k] \in {"ok", "refused", "skipped"}

\* C14: after a run that was interrupted (the process killed, or the flag
\* update failing), the phase invoked again with the services available flags
\* every chunk that has content: when that run has returned, every chunk it
\* selected that has content is vector_embedded.
C14_Resumable ==
  (resumed /\ HealthyRunReturned) =>
    \A k \in 1..Len(uchunks) :
      HasContent(uchunks[k]) => store[uchunks[k].id].vector_embedded

\* The chunks regroup_sentences makes of block b of a file's blocks.
ChunksOfBlock(blocks, b) ==
  regroup_sentences(split_with_spacy(blocks[b].text), MAX_TOKENS, OVERLAP)

RECURSIVE ChunksBeforeBlock(_, _)
\* The number of chunks of the blocks before block b.
ChunksBeforeBlock(blocks, b) ==
  IF b <= 1 THEN 0
  ELSE ChunksBeforeBlock(blocks, b - 1) + Len(ChunksOfBlock(blocks, b - 1))

\* C15: the chunks process_file returns for a file are numbered 1..n without
\* gap or repeat, block by block and chunk by chunk within a block (chunk k
\* of block b is at place k after the chunks of the blocks before b, with
\* the block's page), each with chunked = true and vector_embedded = false;
\* the rows a run inserted for one file carry, in id order, the numbers 1..n.
C15_ChunkNumbering ==
  /\ \A n \in NameSet :
       (results[n].kind = "ok" /\ results[n].chunks # <<>>) =>
         LET blocks == ExtractBlocks(n, dir[n])
             made == results[n].chunks
         IN /\ Len(made) = ChunksBeforeBlock(blocks, Len(blocks) + 1)
            /\ \A idx \in 1..Len(made) :
                 /\ made[idx].chunk_number = idx
                 /\ made[idx].chunked
                 /\ ~made[idx].vector_embedded
            /\ \A b \in 1..Len(blocks) :
                 \A k \in 1..Len(ChunksOfBlock(blocks, b)) :
                   LET c == made[ChunksBeforeBlock(blocks, b) + k]
                   IN /\ c.content = ChunksOfBlock(blocks, b)[k]
                      /\ c.page_number = blocks[b].page_number
  /\ \A s \in 1..Len(hist) :
       \A j \in RowsOfRun(s) :
         /\ store[j].chunked
         /\ ~store[j].vector_embedded
         /\ store[j].chunk_number =
              1 + Cardinality({ h \in RowsOfRun(s) :
                                  h < j /\ store[h].source_file = store[j].source_file })

\* C15 witness: a run has inserted the rows of a file with two blocks, numbered
\* from 1 across the blocks, after the rows of another file.
C15_Witness ==
  \E s \in 1..Len(hist) :
    \E j \in RowsOfRun(s), h \in RowsOfRun(s) :
      /\ hist[s].dir["a.pdf"] # Absent
      /\ hist[s].dir["b.pdf"] = "W"
      /\ store[j].source_file = "b.pdf" /\ store[h].source_file = "b.pdf"
      /\ h = j + 1
      /\ store[j].page_number = 1 /\ store[h].page_number = 2
      /\ store[h].chunk_number = store[j].chunk_number + 1
      /\ j > hist[s].first

\* --------------------------------------- further claims on regroup_sentences
\* Every sentence of the input has at most max_tokens words.
AllSentencesFit == \A k \in 1..Len(sentences) : Len(sentences[k]) <= max_tokens

\* C16: on sentences that each have at most max_tokens words, with any
\* overlap, regroup_sentences comes to the end of the list.  The loop is
\* deterministic in i, current_chunk and word_count, so it comes to the end
\* only if no iteration leaves the three as they were.
C16_Terminates ==
  [][(rpc = "loop" /\ rpc' = "loop" /\ AllSentencesFit)
       => <<i, current_chunk, word_count>>' # <<i, current_chunk, word_count>>]_vars

\* ------------------------------------------ further claims on ingestion
RECURSIVE ChunksInFileOrder(_, _, _)
\* The chunks of the files of d, each processed on its own against the
\* digests the table held before the run, in the order of names.
ChunksInFileOrder(names, d, before) ==
  IF names = <<>> THEN <<>>
  ELSE (IF d[Head(names)] # Absent
        THEN process_file(Head(names), d[Head(names)], before).chunks
        ELSE <<>>)
       \o ChunksInFileOrder(Tail(names), d, before)

\* C17: during the parallel phase existing_hashes is the set of digests the
\* table held when the run started; the result of a file depends on the file
\* and that set only, so the rows of a run that completes are the same
\* whatever the order in which the workers ran; and two files of one run with
\* the same bytes, new to the table, both get their rows, under one digest.
C17_SnapshotDedup ==
  /\ ipc = "map" =>
       /\ existing_hashes = fetch_existing_hashes(store)
       /\ \A n \in NameSet :
            results[n].kind # "pending" =>
              results[n] = process_file(n, dir[n], fetch_existing_hashes(store))
  /\ \A s \in 1..Len(hist) :
       hist[s].outcome = "completed" =>
         LET before == DigestsOfFirstRows(hist[s].first - 1)
             d == hist[s].dir
         IN /\ SubSeq(store, hist[s].first, hist[s].first + hist[s].inserted - 1)
                 = ChunksInFileOrder(Names, d, before)
            /\ \A n \in NameSet, m \in NameSet :
                 (/\ n # m /\ d[n] = d[m] /\ d[n] # Absent
                  /\ calculate_sha256_from_bytes(d[n]) \notin before
                  /\ ExtractBlocks(n, d[n]) # <<>>)
                   => \E j \in RowsOfRun(s), h \in RowsOfRun(s) :
                        /\ store[j].source_file = n
                        /\ store[h].source_file = m
                        /\ store[j].file_hash = calculate_sha256_from_bytes(d[n])
                        /\ store[h].file_hash = store[j].file_hash

\* C17 witness: a run on two files with the same bytes has completed and
\* inserted rows for both names with one digest.
C17_Witness ==
  \E s \in 1..Len(hist) :
    /\ hist[s].outcome = "completed"
    /\ hist[s].dir["a.pdf"] = "X" /\ hist[s].dir["b.pdf"] = "X"
    /\ \E j \in RowsOfRun(s), h \in RowsOfRun(s) :
         /\ store[j].source_file = "a.pdf"
         /\ store[h].source_file = "b.pdf"
         /\ store[j].file_hash = store[h].file_hash

\* C18: no row is written while a worker of the run is still at work: the
\* table changes only in the step that ends a run, after every file of the
\* run has its result; and the rows a run leaves in the table are all of the
\* run's chunks or none.
C18_SingleBatchWrite ==
  /\ [][store' # store =>
          /\ ipc = "map" /\ ipc' = "idle"
          /\ \A n \in NameSet : dir[n] # Absent => results[n].kind # "pending"
          /\ Len(hist') = Len(hist) + 1]_vars
  /\ [](\A s \in 1..Len(hist) :
          \/ hist[s].inserted = 0
          \/ SubSeq(store, hist[s].first, hist[s].first + hist[s].inserted - 1)
               = ChunksInFileOrder(Names, hist[s].dir,
                                   DigestsOfFirstRows(hist[s].first - 1)))

\* C18 witness: one run whose batch write raised at its last INSERT has left
\* no row, and one run on the two files has left the rows of both.
C18_Witness ==
  \E r \in 1..Len(hist), s \in 1..Len(hist) :
    /\ hist[r].outcome = "insert_failed" /\ hist[r].inserted = 0
    /\ hist[r].dir["a.pdf"] = "X" /\ hist[r].dir["b.pdf"] = "W"
    /\ hist[s].outcome = "completed"
    /\ hist[s].dir = hist[r].dir
    /\ hist[s].inserted
         = Len(ChunksInFileOrder(Names, hist[s].dir, DigestsOfFirstRows(hist[s].first - 1)))
    /\ hist[s].inserted >= 2

\* The input position of the first and of the last sentence a non-empty
\* chunk holds words of (a word carries the position of its sentence).
FirstSentenceOf(c) == c[1][1]
LastSentenceOf(c) == c[Len(c)][1]

\* C19: when regroup_sentences has returned, no returned chunk is the empty
\* string; every chunk is a run of whole input sentences in input order;
\* every input sentence is in at least one chunk; the chunks follow the
\* input order; and the last chunk ends with the last sentence (the
\* remainder is emitted).
C19_NoSentenceDropped ==
  rpc = "done" =>
    /\ \A k \in 1..Len(chunks) : chunks[k] # <<>>
    /\ \A k \in 1..Len(chunks) :
         chunks[k] = JoinRange(FirstSentenceOf(chunks[k]), LastSentenceOf(chunks[k]))
    /\ \A n \in 1..Len(sentences) :
         \E k \in 1..Len(chunks) :
           FirstSentenceOf(chunks[k]) <= n /\ n <= LastSentenceOf(chunks[k])
    /\ \A k \in 1..(Len(chunks) - 1) :
         /\ FirstSentenceOf(chunks[k]) <= FirstSentenceOf(chunks[k + 1])
         /\ LastSentenceOf(chunks[k]) < LastSentenceOf(chunks[k + 1])
    /\ sentences # <<>> =>
         /\ chunks # <<>>
         /\ LastSentenceOf(chunks[Len(chunks)]) = Len(sentences)

\* C19 witness: a call with overlap has returned three chunks or more, one
\* sentence being in two of them.
C19_Witness ==
  /\ rpc = "done"
  /\ overlap > 0
  /\ Len(chunks) >= 3
  /\ \E k \in 1..(Len(chunks) - 1) :
       LastSentenceOf(chunks[k]) = FirstSentenceOf(chunks[k + 1])

\* --------------------------------------- further claims on the upsert phase
\* C20: in every state the ingestion and upsert runs reach, each row with
\* vector_embedded = true has exactly one index entry under
\* stable_uuid(source_file, chunk_number), with that row's content and page
\* number.
C20_FlaggedFaithfullyIndexed ==
  \A id \in 1..Len(store) :
    store[id].vector_embedded =>
      LET objs == ObjectsWithId(index, stable_uuid(store[id]))
      IN /\ Cardinality(objs) = 1
         /\ \A o \in objs :
              /\ o.properties.content = store[id].content
              /\ o.properties.page_number = store[id].page_number

\* C20 witness: a file was ingested again under its name with other bytes and
\* the upsert phase has handled the new chunk 1: the old row is flagged, the
\* new row is in the table under the same pair with other content.
C20_Witness ==
  \E id \in 1..Len(store), k \in 1..Len(outcome) :
    /\ store[id].vector_embedded
    /\ uchunks[k].id > id
    /\ uchunks[k].source_file = store[id].source_file
    /\ uchunks[k].chunk_number = store[id].chunk_number
    /\ uchunks[k].content # store[id].content

\* ------------------------------------------- claims on the service calls
\* C21: no call to the embedding service stalls its program: neither the
\* upsert program, inside get_embedding, nor hybrid_search, inside its
\* query embedding request, is ever in a call that does not return.
C21_BoundedWaiting ==
  /\ upc # "blocked"
  /\ search.pc # "blocked"

\* C22: under every environment, the same for both programs, the request
\* hybrid_search sends for the query goes to the endpoint and names the
\* model of the request get_embedding sends for documents.
C22_SameEmbeddingModel ==
  (embedding_requests.document.made /\ embedding_requests.query.made) =>
    /\ embedding_requests.query.url = embedding_requests.document.url
    /\ embedding_requests.query.model = embedding_requests.document.model
====
